---- MODULE Spec2Model ----
(***************************************************************************)
(* Model of the document post-processing engine of swagger-helpers-nest:   *)
(* traverseDocument with its operation phase (visitor chain per            *)
(* (path, method), cascade deletion of emptied path items) and its         *)
(* property phase, plus the two built-in property visitors.                *)
(*                                                                         *)
(* Optional values (an object key that may be missing, an omitted          *)
(* argument) are sets with at most one element: {} is "undefined",         *)
(* {v} is the value v.                                                     *)
(***************************************************************************)
EXTENDS Integers, Sequences, FiniteSets, TLC

\* ------------------------------------------------------------------ bounds
MaxVisitors == 2
MaxLen == 2
MaxCalls == 3

\* ------------------------------------------------------------------ helpers
None == {}
Some(x) == {x}
The(o) == CHOOSE x \in o : TRUE

SeqsUpTo(S, n) == UNION {[1..k -> S] : k \in 0..n}

\* ------------------------------------------------------------------ paths
\* The keys of PathItemObject that hold an OperationObject (type Method).
Method == {"delete", "get", "head", "options", "patch", "post", "put", "trace"}

\* const methods = ['delete', 'get', 'get', 'head', ...] in traverseDocument
methods == <<"delete", "get", "get", "head", "options", "patch", "post", "put">>

\* JavaScript truthiness of an optional string (pathItem.$ref)
TruthyString(o) == o # None /\ The(o) # ""

\* operation visitors the documents are traversed with; an operation is
\* represented by the number of in-place edits visitors made to it
OperationVisitorKinds == {"DeleteAll", "DeleteGet", "Mark", "DeleteMarked"}

ApplyOperationVisitor(kind, operation, method, path) ==
  CASE kind = "DeleteAll"    -> [result |-> "delete", operation |-> operation]
    [] kind = "DeleteGet"    -> [result |-> IF method = "get" THEN "delete" ELSE "void",
                                 operation |-> operation]
    [] kind = "Mark"         -> [result |-> "void", operation |-> operation + 1]
    [] kind = "DeleteMarked" -> [result |-> IF operation > 0 THEN "delete" ELSE "void",
                                 operation |-> operation]

\* VisitorLoop without the break after a 'delete' result
RECURSIVE VisitorLoopNoBreak(_, _, _, _, _, _)
VisitorLoopNoBreak(visitors, j, operation, method, path, events) ==
  IF j > Len(visitors)
  THEN [deleted |-> \E k \in 1..Len(events) :
                      /\ events[k].path = path /\ events[k].method = method
                      /\ events[k].result = "delete",
        operation |-> operation, events |-> events]
  ELSE LET r  == ApplyOperationVisitor(visitors[j], operation, method, path)
           ev == [visitor |-> j, kind |-> visitors[j], path |-> path,
                  method |-> method, result |-> r.result]
       IN VisitorLoopNoBreak(visitors, j + 1, r.operation, method, path,
                             Append(events, ev))

\* for (const visitor of operationVisitors) { ...; if (result === 'delete') {...; break;} }
RECURSIVE VisitorLoop(_, _, _, _, _, _)
VisitorLoop(visitors, j, operation, method, path, events) ==
  IF j > Len(visitors)
  THEN [deleted |-> FALSE, operation |-> operation, events |-> events]
  ELSE LET r  == ApplyOperationVisitor(visitors[j], operation, method, path)
           ev == [visitor |-> j, kind |-> visitors[j], path |-> path,
                  method |-> method, result |-> r.result]
       IN IF r.result = "delete"
          THEN [deleted |-> TRUE, operation |-> r.operation,
                events |-> Append(events, ev)]
          ELSE VisitorLoop(visitors, j + 1, r.operation, method, path,
                           Append(events, ev))

\* delete pathItem[method]
DeleteKey(f, k) == [x \in (DOMAIN f) \ {k} |-> f[x]]

\* for (const method of methods) { const operation = pathItem[method]; ... }
RECURSIVE MethodLoop(_, _, _, _, _, _, _)
MethodLoop(visitors, methodList, i, pathItem, path, anOperationWasDeleted, events) ==
  IF i > Len(methodList)
  THEN [pathItem |-> pathItem, anOperationWasDeleted |-> anOperationWasDeleted,
        events |-> events]
  ELSE LET method == methodList[i] IN
       IF method \notin DOMAIN pathItem.ops
       THEN MethodLoop(visitors, methodList, i + 1, pathItem, path,
                       anOperationWasDeleted, events)
       ELSE LET r == VisitorLoop(visitors, 1, pathItem.ops[method], method, path, events)
            IN IF r.deleted
               THEN MethodLoop(visitors, methodList, i + 1,
                               [pathItem EXCEPT !.ops = DeleteKey(@, method)],
                               path, TRUE, r.events)
               ELSE MethodLoop(visitors, methodList, i + 1,
                               [pathItem EXCEPT !.ops[method] = r.operation],
                               path, anOperationWasDeleted, r.events)

\* ShouldDeletePath without the test of anOperationWasDeleted
ShouldDeletePathAnyEmpty(pathItem, anOperationWasDeleted, methodList) ==
  /\ ~TruthyString(pathItem.ref)
  /\ \A i \in 1..Len(methodList) : methodList[i] \notin DOMAIN pathItem.ops

\* ShouldDeletePath without the test of pathItem.$ref
ShouldDeletePathIgnoringRef(pathItem, anOperationWasDeleted, methodList) ==
  /\ anOperationWasDeleted
  /\ \A i \in 1..Len(methodList) : methodList[i] \notin DOMAIN pathItem.ops

\* anOperationWasDeleted && !pathItem.$ref && methods.every(m => !pathItem[m])
ShouldDeletePath(pathItem, anOperationWasDeleted, methodList) ==
  /\ anOperationWasDeleted
  /\ ~TruthyString(pathItem.ref)
  /\ \A i \in 1..Len(methodList) : methodList[i] \notin DOMAIN pathItem.ops

\* the body of the loop over Object.keys(swaggerDocument.paths)
TraversePath(visitors, methodList, allPaths, path) ==
  LET r   == MethodLoop(visitors, methodList, 1, allPaths[path], path, FALSE, <<>>)
      del == ShouldDeletePath(r.pathItem, r.anOperationWasDeleted, methodList)
  IN [paths  |-> IF del THEN DeleteKey(allPaths, path)
                 ELSE [allPaths EXCEPT ![path] = r.pathItem],
      events |-> IF del
                 THEN Append(r.events, [visitor |-> 0, kind |-> "engine", path |-> path,
                                        method |-> "", result |-> "deletePath"])
                 ELSE r.events]

\* ------------------------------------------------------------------ schemas
\* JavaScript truthiness of an optional boolean (propSchema.nullable)
TruthyBoolean(o) == o # None /\ The(o) = TRUE

RefItem(name) == [ref |-> Some(name), nullable |-> None]

\* the literal { nullable: true } pushed by MoveNullableToOneOfVisitor
NullableBranch == [ref |-> None, nullable |-> Some(TRUE)]

\* Length1AllOfToOneOfVisitor without the guard on an existing oneOf
Length1AllOfOverwriting(propSchema) ==
  IF propSchema.allOf # None /\ Len(The(propSchema.allOf)) = 1
  THEN [propSchema EXCEPT !.oneOf = propSchema.allOf, !.allOf = None]
  ELSE propSchema

\* 'allOf' in propSchema && propSchema.allOf?.length === 1 && !propSchema.oneOf
Length1AllOfToOneOfVisitor(propSchema) ==
  IF propSchema.allOf # None /\ Len(The(propSchema.allOf)) = 1 /\ propSchema.oneOf = None
  THEN [propSchema EXCEPT !.oneOf = propSchema.allOf, !.allOf = None]
  ELSE propSchema

\* MoveNullableToOneOfVisitor that forgets to delete propSchema.nullable
MoveNullableKeepingFlag(propSchema) ==
  IF propSchema.oneOf # None /\ TruthyBoolean(propSchema.nullable)
  THEN [propSchema EXCEPT !.oneOf = Some(Append(The(@), NullableBranch))]
  ELSE propSchema

\* MoveNullableToOneOfVisitor that puts the { nullable: true } branch first
MoveNullableToFront(propSchema) ==
  IF propSchema.oneOf # None /\ TruthyBoolean(propSchema.nullable)
  THEN [propSchema EXCEPT !.nullable = None,
                          !.oneOf = Some(<<NullableBranch>> \o The(@))]
  ELSE propSchema

\* 'oneOf' in propSchema && propSchema.oneOf && propSchema.nullable
MoveNullableToOneOfVisitor(propSchema) ==
  IF propSchema.oneOf # None /\ TruthyBoolean(propSchema.nullable)
  THEN [propSchema EXCEPT !.nullable = None,
                          !.oneOf = Some(Append(The(@), NullableBranch))]
  ELSE propSchema

PropertyVisitorKinds == {"Length1AllOfToOneOfVisitor", "MoveNullableToOneOfVisitor"}

ApplyPropertyVisitor(kind, propSchema, propName) ==
  CASE kind = "Length1AllOfToOneOfVisitor" -> Length1AllOfToOneOfVisitor(propSchema)
    [] kind = "MoveNullableToOneOfVisitor" -> MoveNullableToOneOfVisitor(propSchema)

\* PropertyVisitorLoop that walks the list from its end
RECURSIVE PropertyVisitorLoopReversed(_, _, _, _, _, _)
PropertyVisitorLoopReversed(visitors, j, propSchema, propName, schemaName, events) ==
  IF j > Len(visitors)
  THEN [propSchema |-> propSchema, events |-> events]
  ELSE LET k     == Len(visitors) + 1 - j
           after == ApplyPropertyVisitor(visitors[k], propSchema, propName)
           ev    == [visitor |-> k, kind |-> visitors[k], schema |-> schemaName,
                     prop |-> propName, before |-> propSchema, after |-> after]
       IN PropertyVisitorLoopReversed(visitors, j + 1, after, propName, schemaName,
                                      Append(events, ev))

\* for (const visitor of propertyVisitors) visitor(propSchema, propName)
RECURSIVE PropertyVisitorLoop(_, _, _, _, _, _)
PropertyVisitorLoop(visitors, j, propSchema, propName, schemaName, events) ==
  IF j > Len(visitors)
  THEN [propSchema |-> propSchema, events |-> events]
  ELSE LET after == ApplyPropertyVisitor(visitors[j], propSchema, propName)
           ev    == [visitor |-> j, kind |-> visitors[j], schema |-> schemaName,
                     prop |-> propName, before |-> propSchema, after |-> after]
       IN PropertyVisitorLoop(visitors, j + 1, after, propName, schemaName,
                              Append(events, ev))

\* insertion order of the keys of the objects that are iterated
PathOrder == <<"/a", "/b">>
SchemaOrder == <<"CatDto", "Page", "Link">>
PropOrder == <<"p", "q", "r">>

\* Object.keys / Object.entries / Object.values: the present keys, in order
KeysInOrder(order, f) == SelectSeq(order, LAMBDA k : k \in DOMAIN f)

\* for (const [propName, propSchema] of Object.entries(schema.properties ?? {}))
RECURSIVE PropertyLoop(_, _, _, _, _, _)
PropertyLoop(visitors, names, i, properties, schemaName, events) ==
  IF i > Len(names)
  THEN [properties |-> properties, events |-> events]
  ELSE LET r == PropertyVisitorLoop(visitors, 1, properties[names[i]], names[i],
                                    schemaName, events)
       IN PropertyLoop(visitors, names, i + 1,
                       [properties EXCEPT ![names[i]] = r.propSchema],
                       schemaName, r.events)

\* the body of the loop over Object.values(components.schemas): if ('properties' in schema)
TraverseSchema(visitors, schema, schemaName) ==
  IF schema.properties = None
  THEN [schema |-> schema, events |-> <<>>]
  ELSE LET props == The(schema.properties)
           r     == PropertyLoop(visitors, KeysInOrder(PropOrder, props), 1, props,
                                 schemaName, <<>>)
       IN [schema |-> [schema EXCEPT !.properties = Some(r.properties)],
           events |-> r.events]

\* ------------------------------------------------------------------ configuration
\* { operationVisitors, propertyVisitors } = {}: either key, or the whole
\* argument, may be omitted
OperationVisitorsOf(cfg) == IF cfg = None THEN None ELSE The(cfg).operationVisitors
PropertyVisitorsOf(cfg) == IF cfg = None THEN None ELSE The(cfg).propertyVisitors

\* if (operationVisitors?.length)
OperationPhaseEnabled(cfg) ==
  OperationVisitorsOf(cfg) # None /\ Len(The(OperationVisitorsOf(cfg))) > 0

\* the property phase guarded by the operation visitors' list
PropertyPhaseGuardedByOperations(cfg) ==
  OperationVisitorsOf(cfg) # None /\ Len(The(OperationVisitorsOf(cfg))) > 0

\* if (propertyVisitors?.length)
PropertyPhaseEnabled(cfg) ==
  PropertyVisitorsOf(cfg) # None /\ Len(The(PropertyVisitorsOf(cfg))) > 0

\* swaggerDocument.components?.schemas ?? {}
SchemasOf(comp) == IF comp = None THEN <<>> ELSE The(comp)

\* ------------------------------------------------------------------ state
VARIABLES
  paths,        \* swaggerDocument.paths: path -> [ref, ops: method -> operation]
  components,   \* swaggerDocument.components?.schemas (optional): name -> schema
  config,       \* the second argument of traverseDocument (optional)
  pc,           \* position of the current call
  pathKeys,     \* paths still to visit (snapshot taken by Object.keys)
  schemaKeys,   \* schemas still to visit
  calls,        \* number of traverseDocument calls started
  input,        \* the document handed to the first call
  doc0,         \* the document at the start of the current call
  opLog,        \* operation-visitor invocations and path deletions of this call
  propLog       \* property-visitor invocations of this call

vars == <<paths, components, config, pc, pathKeys, schemaKeys, calls, input, doc0,
          opLog, propLog>>

Tick == Len(opLog) + Len(propLog)

Stamp(events, base) ==
  [i \in 1..Len(events) |->
     [f \in (DOMAIN events[i]) \cup {"tick"} |->
        IF f = "tick" THEN base + i ELSE events[i][f]]]

\* ------------------------------------------------------------------ inputs
RefValues == {None, Some(""), Some("#/components/pathItems/Shared")}

PathItemWith(ref, ms) == [ref |-> ref, ops |-> [m \in ms |-> 0]]

PathDocs ==
  {[k \in {"/a"} \cup bs |->
      IF k = "/a" THEN PathItemWith(ref, ms) ELSE PathItemWith(None, {"get", "put"})] :
    ref \in RefValues, ms \in SUBSET {"get", "post", "trace"},
    bs \in {{}, {"/b"}}}

DefaultPaths == [k \in {"/a"} |-> PathItemWith(None, {"get"})]

VisitorLists(kinds) == {None} \cup {Some(v) : v \in SeqsUpTo(kinds, MaxVisitors)}

Cat == RefItem("#/components/schemas/CatDto")
Dog == RefItem("#/components/schemas/DogDto")

ListOf(first, n) == [i \in 1..n |-> IF i % 2 = 1 THEN first ELSE IF first = Cat THEN Dog ELSE Cat]

CompositionLists(first) == {None} \cup {Some(ListOf(first, n)) : n \in 0..MaxLen}

PropertySchemas ==
  {[ref |-> None, allOf |-> a, oneOf |-> o, nullable |-> n] :
    a \in CompositionLists(Cat), o \in CompositionLists(Dog),
    n \in {None, Some(FALSE), Some(TRUE)}}

ReferenceProperty ==
  [ref |-> Some("#/components/schemas/DogDto"), allOf |-> None, oneOf |-> None,
   nullable |-> None]

WrappedProperty ==
  [ref |-> None, allOf |-> Some(<<Dog>>), oneOf |-> None, nullable |-> Some(TRUE)]

SchemasWith(p, pageProps) ==
  [k \in {"CatDto", "Page", "Link"} |->
     CASE k = "CatDto" -> [ref |-> None,
                           properties |-> Some([n \in {"p", "q"} |->
                              IF n = "p" THEN p ELSE ReferenceProperty])]
       [] k = "Page"   -> [ref |-> None, properties |-> pageProps]
       [] k = "Link"   -> [ref |-> Some("#/components/schemas/CatDto"),
                           properties |-> None]]

PageProperties == Some([n \in {"r"} |-> WrappedProperty])

DefaultSchemas == SchemasWith(WrappedProperty, PageProperties)

BuiltIns == <<"Length1AllOfToOneOfVisitor", "MoveNullableToOneOfVisitor">>

Config(ov, pv) == Some([operationVisitors |-> ov, propertyVisitors |-> pv])

\* documents and configurations whose operation phase is varied
OperationInputs ==
  {[paths |-> d, components |-> Some(DefaultSchemas), config |-> Config(ov, pv)] :
    d \in PathDocs, ov \in VisitorLists(OperationVisitorKinds),
    pv \in {None, Some(BuiltIns)}}

\* documents and configurations whose property phase is varied
PropertyInputs ==
  {[paths |-> DefaultPaths, components |-> Some(SchemasWith(p, pp)),
    config |-> Config(ov, pv)] :
    p \in PropertySchemas, pp \in {None, PageProperties},
    ov \in {None, Some(<<"DeleteAll">>)}, pv \in VisitorLists(PropertyVisitorKinds)}

\* the configuration argument omitted; the document without components
OtherInputs ==
  {[paths |-> DefaultPaths, components |-> Some(DefaultSchemas), config |-> None],
   [paths |-> DefaultPaths, components |-> None,
    config |-> Config(Some(<<"DeleteAll">>), Some(BuiltIns))]}

Inputs == OperationInputs \cup PropertyInputs \cup OtherInputs

\* ------------------------------------------------------------------ behaviour
Init ==
  \E i \in Inputs :
    /\ paths = i.paths
    /\ components = i.components
    /\ config = i.config
    /\ pc = "start"
    /\ pathKeys = <<>>
    /\ schemaKeys = <<>>
    /\ calls = 1
    /\ input = [paths |-> i.paths, components |-> i.components]
    /\ doc0 = [paths |-> i.paths, components |-> i.components]
    /\ opLog = <<>>
    /\ propLog = <<>>

\* if (operationVisitors?.length) { for (const path of Object.keys(swaggerDocument.paths))
EnterOperationPhase ==
  /\ pc = "start"
  /\ OperationPhaseEnabled(config)
  /\ pathKeys' = KeysInOrder(PathOrder, paths)
  /\ pc' = "paths"
  /\ UNCHANGED <<paths, components, config, schemaKeys, calls, input, doc0, opLog, propLog>>

SkipOperationPhase ==
  /\ pc = "start"
  /\ ~OperationPhaseEnabled(config)
  /\ pc' = "between"
  /\ UNCHANGED <<paths, components, config, pathKeys, schemaKeys, calls, input, doc0,
                 opLog, propLog>>

\* one iteration of the loop over the paths
VisitPath ==
  /\ pc = "paths"
  /\ pathKeys # <<>>
  /\ LET r == TraversePath(The(OperationVisitorsOf(config)), methods, paths, Head(pathKeys))
     IN /\ paths' = r.paths
        /\ opLog' = opLog \o Stamp(r.events, Tick)
  /\ pathKeys' = Tail(pathKeys)
  /\ UNCHANGED <<components, config, pc, schemaKeys, calls, input, doc0, propLog>>

LeaveOperationPhase ==
  /\ pc = "paths"
  /\ pathKeys = <<>>
  /\ pc' = "between"
  /\ UNCHANGED <<paths, components, config, pathKeys, schemaKeys, calls, input, doc0,
                 opLog, propLog>>

\* if (propertyVisitors?.length) { for (const schema of Object.values(...))
EnterPropertyPhase ==
  /\ pc = "between"
  /\ PropertyPhaseEnabled(config)
  /\ schemaKeys' = KeysInOrder(SchemaOrder, SchemasOf(components))
  /\ pc' = "schemas"
  /\ UNCHANGED <<paths, components, config, pathKeys, calls, input, doc0, opLog, propLog>>

SkipPropertyPhase ==
  /\ pc = "between"
  /\ ~PropertyPhaseEnabled(config)
  /\ pc' = "done"
  /\ UNCHANGED <<paths, components, config, pathKeys, schemaKeys, calls, input, doc0,
                 opLog, propLog>>

\* one iteration of the loop over the schemas
VisitSchema ==
  /\ pc = "schemas"
  /\ schemaKeys # <<>>
  /\ LET name == Head(schemaKeys)
         r    == TraverseSchema(The(PropertyVisitorsOf(config)), The(components)[name], name)
     IN /\ components' = Some([The(components) EXCEPT ![name] = r.schema])
        /\ propLog' = propLog \o Stamp(r.events, Tick)
  /\ schemaKeys' = Tail(schemaKeys)
  /\ UNCHANGED <<paths, config, pc, pathKeys, calls, input, doc0, opLog>>

Return ==
  /\ pc = "schemas"
  /\ schemaKeys = <<>>
  /\ pc' = "done"
  /\ UNCHANGED <<paths, components, config, pathKeys, schemaKeys, calls, input, doc0,
                 opLog, propLog>>

\* the caller runs traverseDocument again on the same document and configuration
CallAgain ==
  /\ pc = "done"
  /\ calls < MaxCalls
  /\ calls' = calls + 1
  /\ pc' = "start"
  /\ doc0' = [paths |-> paths, components |-> components]
  /\ opLog' = <<>>
  /\ propLog' = <<>>
  /\ UNCHANGED <<paths, components, config, pathKeys, schemaKeys, input>>

Next ==
  \/ EnterOperationPhase
  \/ SkipOperationPhase
  \/ VisitPath
  \/ LeaveOperationPhase
  \/ EnterPropertyPhase
  \/ SkipPropertyPhase
  \/ VisitSchema
  \/ Return
  \/ CallAgain

Spec == Init /\ [][Next]_vars

TypeOK ==
  /\ pc \in {"start", "paths", "between", "schemas", "done"}
  /\ calls \in 1..MaxCalls
  /\ DOMAIN paths \subseteq {"/a", "/b"}
  /\ \A p \in DOMAIN paths : DOMAIN paths[p].ops \subseteq Method

\* ------------------------------------------------------------------ operation phase
Done == pc = "done"

\* the method slots of a path entry that the engine enumerates
MethodSlots == {methods[i] : i \in DOMAIN methods}

IsInvocation(e) == e.kind # "engine"

\* the methods of path p for which a visitor returned 'delete' in this call
DeletedOps(p) ==
  {opLog[i].method : i \in {k \in 1..Len(opLog) :
                              opLog[k].path = p /\ opLog[k].result = "delete"}}

\* what is left of a path entry that was visited: its operations minus the deleted ones
KeepsTheOtherOperations ==
  \A p \in DOMAIN doc0.paths \cap DOMAIN paths :
    DOMAIN paths[p].ops = (DOMAIN doc0.paths[p].ops) \ DeletedOps(p)

\* refsWithoutMarker: the values of $ref that count as "no marker"
CascadeWhen(refsWithoutMarker) ==
  Done =>
    /\ \A p \in DOMAIN doc0.paths :
         (p \notin DOMAIN paths) <=>
           /\ DeletedOps(p) # {}
           /\ doc0.paths[p].ref \in refsWithoutMarker
           /\ \A m \in MethodSlots \cap DOMAIN doc0.paths[p].ops : m \in DeletedOps(p)
    /\ KeepsTheOtherOperations

C2_RefKeyProtected ==
  \A p \in DOMAIN doc0.paths : doc0.paths[p].ref # None => p \in DOMAIN paths

\* C2 (amended): a path entry whose $ref is a non-empty string is never removed
\* from document.paths by traverseDocument, whether it has no operations from
\* the start or loses all of them during the call.
C2_RefProtected ==
  \A p \in DOMAIN doc0.paths : TruthyString(doc0.paths[p].ref) => p \in DOMAIN paths

\* a path entry with a non-empty $ref has lost all its enumerated operations and is still there
C2_Witness ==
  /\ Done
  /\ \E p \in DOMAIN doc0.paths :
       /\ TruthyString(doc0.paths[p].ref)
       /\ DeletedOps(p) # {}
       /\ p \in DOMAIN paths
       /\ MethodSlots \cap DOMAIN paths[p].ops = {}

\* C3: once a visitor returns 'delete' for a (path, method), the operation is
\* removed from the path entry and no visitor is invoked for that (path, method)
\* afterwards in the same call (neither a later one of the list nor any other).
C3_ShortCircuit ==
  \A i \in 1..Len(opLog) :
    opLog[i].result = "delete" =>
      /\ \A j \in (i + 1)..Len(opLog) :
           IsInvocation(opLog[j]) =>
             ~(opLog[j].path = opLog[i].path /\ opLog[j].method = opLog[i].method)
      /\ opLog[i].path \in DOMAIN paths =>
           opLog[i].method \notin DOMAIN paths[opLog[i].path].ops

\* the first of two visitors returned 'delete': the second was not invoked there
C3_Witness ==
  /\ Done
  /\ OperationVisitorsOf(config) # None
  /\ Len(The(OperationVisitorsOf(config))) = 2
  /\ \E i \in 1..Len(opLog) :
       /\ opLog[i].result = "delete"
       /\ opLog[i].visitor = 1
       /\ \A j \in 1..Len(opLog) :
            (opLog[j].path = opLog[i].path /\ opLog[j].method = opLog[i].method) => j = i

\* ---- the engine with every method checked once
MethodsOnce == <<"delete", "get", "head", "options", "patch", "post", "put">>

RECURSIVE TraverseOnce(_, _, _, _, _)
TraverseOnce(visitors, keys, i, allPaths, events) ==
  IF i > Len(keys)
  THEN [paths |-> allPaths, events |-> events]
  ELSE LET r == TraversePath(visitors, MethodsOnce, allPaths, keys[i])
       IN TraverseOnce(visitors, keys, i + 1, r.paths, events \o r.events)

OnceResult ==
  IF OperationPhaseEnabled(config)
  THEN TraverseOnce(The(OperationVisitorsOf(config)),
                    KeysInOrder(PathOrder, doc0.paths), 1, doc0.paths, <<>>)
  ELSE [paths |-> doc0.paths, events |-> <<>>]

Unstamped(events) ==
  [i \in 1..Len(events) |-> [f \in (DOMAIN events[i]) \ {"tick"} |-> events[i][f]]]

\* C8: the duplicated 'get' has no observable effect: the resulting paths and
\* the sequence of visitor invocations are those of an engine that checks each
\* method once, and no visitor is invoked twice for the same (path, method).
C8_DuplicateGetUnobservable ==
  Done =>
    /\ paths = OnceResult.paths
    /\ Unstamped(opLog) = OnceResult.events
    /\ \A i, j \in 1..Len(opLog) :
         ( /\ IsInvocation(opLog[i]) /\ IsInvocation(opLog[j])
           /\ opLog[i].visitor = opLog[j].visitor
           /\ opLog[i].path = opLog[j].path
           /\ opLog[i].method = opLog[j].method ) => i = j

\* C10: after traverseDocument returns, every operation of the input document
\* for which no visitor returned 'delete' is still present under its path and
\* method (also one under a method the engine does not enumerate, like trace).
C10_RemovedOnlyOnRequest ==
  Done =>
    \A p \in DOMAIN doc0.paths :
      \A m \in (DOMAIN doc0.paths[p].ops) \ DeletedOps(p) :
        p \in DOMAIN paths /\ m \in DOMAIN paths[p].ops

\* ------------------------------------------------------------------ built-in visitors
EventsOf(kind) == {i \in 1..Len(propLog) : propLog[i].kind = kind}

\* C6: Length1AllOfToOneOfVisitor turns a property schema with a one-entry
\* allOf [X] and no oneOf into one with oneOf = [X] and no allOf key (nothing
\* else touched); every other property schema (a oneOf of any length, an allOf
\* of zero or several entries, no allOf) is left completely unchanged.
C6_Flattening ==
  \A i \in EventsOf("Length1AllOfToOneOfVisitor") :
    LET b == propLog[i].before
        a == propLog[i].after
    IN IF b.oneOf = None /\ b.allOf # None /\ Len(The(b.allOf)) = 1
       THEN /\ a.oneOf = Some(<<The(b.allOf)[1]>>)
            /\ a.allOf = None
            /\ a.nullable = b.nullable /\ a.ref = b.ref
       ELSE a = b

\* both cases have happened in one call: { allOf: [X] } was flattened and a
\* schema with a oneOf and a one-entry allOf was left alone
C6_Witness ==
  /\ Done
  /\ \E i, j \in EventsOf("Length1AllOfToOneOfVisitor") :
       /\ propLog[i].before.oneOf = None
       /\ propLog[i].before.allOf # None
       /\ propLog[i].after.oneOf = propLog[i].before.allOf
       /\ propLog[j].before.oneOf # None
       /\ propLog[j].before.allOf # None
       /\ Len(The(propLog[j].before.allOf)) = 1
       /\ propLog[j].after = propLog[j].before

MovesNullable(b, a) ==
  /\ a.nullable = None
  /\ a.oneOf = Some(Append(The(b.oneOf), NullableBranch))
  /\ a.allOf = b.allOf /\ a.ref = b.ref

\* C7 (as stated): MoveNullableToOneOfVisitor changes a property schema exactly
\* when it has a non-empty oneOf list and is marked nullable (then nullable is
\* gone and { nullable: true } is appended to the oneOf); without a oneOf, with
\* an empty oneOf or not marked nullable the schema is left unchanged.
C7_RelocationNonEmptyOnly ==
  \A i \in EventsOf("MoveNullableToOneOfVisitor") :
    LET b == propLog[i].before
        a == propLog[i].after
    IN IF b.oneOf # None /\ Len(The(b.oneOf)) > 0 /\ TruthyBoolean(b.nullable)
       THEN MovesNullable(b, a) /\ a # b
       ELSE a = b

\* C7 (amended): MoveNullableToOneOfVisitor changes a property schema exactly
\* when it has a oneOf list (empty or not) and is marked nullable: nullable is
\* gone and { nullable: true } is appended after the previous entries; without
\* a oneOf list or not marked nullable the schema is left unchanged.
C7_Relocation ==
  \A i \in EventsOf("MoveNullableToOneOfVisitor") :
    LET b == propLog[i].before
        a == propLog[i].after
    IN IF b.oneOf # None /\ TruthyBoolean(b.nullable)
       THEN MovesNullable(b, a) /\ a # b
       ELSE a = b

\* the visitor has moved nullable into a oneOf that had entries
C7_Witness ==
  /\ Done
  /\ \E i \in EventsOf("MoveNullableToOneOfVisitor") :
       /\ propLog[i].before.oneOf # None
       /\ Len(The(propLog[i].before.oneOf)) > 0
       /\ TruthyBoolean(propLog[i].before.nullable)
       /\ propLog[i].after # propLog[i].before

\* ---- idempotence
ReversedBuiltIns == <<"MoveNullableToOneOfVisitor", "Length1AllOfToOneOfVisitor">>

PropertiesOf(comp, s) ==
  IF s \in DOMAIN SchemasOf(comp) /\ SchemasOf(comp)[s].properties # None
  THEN The(SchemasOf(comp)[s].properties)
  ELSE <<>>

RunsOnly(lists) ==
  /\ PropertyVisitorsOf(config) # None
  /\ The(PropertyVisitorsOf(config)) \in lists

\* the configuration names no operation visitor
NoOperationVisitors ==
  OperationVisitorsOf(config) = None \/ The(OperationVisitorsOf(config)) = <<>>

\* a later call of the same configuration has returned
Rerun == Done /\ calls >= 2

\* C4 (as stated): with the built-in visitors in either registration order, or
\* with either of them alone, a second traverseDocument run leaves the document
\* as the first run left it.
C4_IdempotentEitherOrder ==
  (Rerun /\ RunsOnly({BuiltIns, ReversedBuiltIns,
                      <<"Length1AllOfToOneOfVisitor">>, <<"MoveNullableToOneOfVisitor">>}))
    => components = doc0.components /\ (NoOperationVisitors => paths = doc0.paths)

\* { allOf: [X], nullable: true } without a oneOf
WrappedNullable(ps) ==
  /\ ps.allOf # None /\ Len(The(ps.allOf)) = 1
  /\ ps.oneOf = None
  /\ TruthyBoolean(ps.nullable)

\* C4 (amended): with Length1AllOfToOneOfVisitor registered before
\* MoveNullableToOneOfVisitor, or with either of them alone, a second run leaves
\* the document as the first run left it. With MoveNullableToOneOfVisitor
\* registered first, the second run changes exactly the property schemas that
\* started with a one-entry allOf, no oneOf and nullable true, and a third run
\* changes nothing.
C4_Idempotent ==
  /\ (Rerun /\ RunsOnly({BuiltIns, <<"Length1AllOfToOneOfVisitor">>,
                         <<"MoveNullableToOneOfVisitor">>}))
       => components = doc0.components /\ (NoOperationVisitors => paths = doc0.paths)
  /\ (Rerun /\ RunsOnly({ReversedBuiltIns}))
       => /\ NoOperationVisitors => paths = doc0.paths
          /\ \A s \in DOMAIN SchemasOf(components) :
               /\ SchemasOf(components)[s].ref = SchemasOf(doc0.components)[s].ref
               /\ DOMAIN PropertiesOf(components, s) = DOMAIN PropertiesOf(doc0.components, s)
               /\ \A n \in DOMAIN PropertiesOf(components, s) :
                    (PropertiesOf(components, s)[n] # PropertiesOf(doc0.components, s)[n])
                      <=> (calls = 2 /\ WrappedNullable(PropertiesOf(input.components, s)[n]))

\* the built-ins in their documented order have run a second time on a
\* document whose first run flattened an allOf and moved a nullable
C4_Witness ==
  /\ Rerun
  /\ RunsOnly({BuiltIns})
  /\ NoOperationVisitors
  /\ components # input.components
  /\ \E i \in 1..Len(propLog) : WrappedNullable(PropertiesOf(input.components, propLog[i].schema)[propLog[i].prop])

\* ------------------------------------------------------------------ phases
EmptyOrOmitted(list) == list = None \/ The(list) = <<>>

\* the (schema, property) pairs of the document at the start of the call
PropertyNodes ==
  {sn \in (DOMAIN SchemasOf(doc0.components)) \X {PropOrder[k] : k \in DOMAIN PropOrder} :
     sn[2] \in DOMAIN PropertiesOf(doc0.components, sn[1])}

\* the populated enumerated (path, method) pairs at the start of the call
OperationNodes ==
  {pm \in (DOMAIN doc0.paths) \X MethodSlots : pm[2] \in DOMAIN doc0.paths[pm[1]].ops}

\* C5: with both visitor lists empty or omitted (or no configuration at all)
\* the call leaves the document unchanged and invokes no visitor; an empty or
\* omitted list skips only its own phase: the other phase still visits every
\* one of its nodes.
C5_EmptyConfiguration ==
  Done =>
    /\ EmptyOrOmitted(OperationVisitorsOf(config)) =>
         paths = doc0.paths /\ opLog = <<>>
    /\ EmptyOrOmitted(PropertyVisitorsOf(config)) =>
         components = doc0.components /\ propLog = <<>>
    /\ ~EmptyOrOmitted(PropertyVisitorsOf(config)) =>
         \A sn \in PropertyNodes :
           \E i \in 1..Len(propLog) : propLog[i].schema = sn[1] /\ propLog[i].prop = sn[2]
    /\ ~EmptyOrOmitted(OperationVisitorsOf(config)) =>
         \A pm \in OperationNodes :
           \E i \in 1..Len(opLog) : opLog[i].path = pm[1] /\ opLog[i].method = pm[2]

\* a call without any visitor has returned on a document that has an
\* operation and a property schema the built-in visitors would rewrite
C5_Witness ==
  /\ Done
  /\ EmptyOrOmitted(OperationVisitorsOf(config))
  /\ EmptyOrOmitted(PropertyVisitorsOf(config))
  /\ OperationNodes # {}
  /\ \E sn \in PropertyNodes :
       WrappedNullable(PropertiesOf(components, sn[1])[sn[2]])

\* the invocations of the property visitors on one (schema, property)
VisitsOf(s, n) == SelectSeq(propLog, LAMBDA e : e.schema = s /\ e.prop = n)

\* C9: operation visitors run in registration order (visitor j > 1 is invoked
\* right after visitor j - 1 returned nothing for the same operation); every
\* operation-visitor invocation and path deletion precedes every
\* property-visitor invocation; the property phase invokes every registered
\* property visitor once, in registration order, on every property of every
\* inline schema with a properties mapping, whatever the operation phase
\* deleted, and on nothing else.
C9_InvocationOrder ==
  /\ \A i \in 1..Len(opLog) :
       (IsInvocation(opLog[i]) /\ opLog[i].visitor > 1) =>
         /\ i > 1
         /\ opLog[i - 1].visitor = opLog[i].visitor - 1
         /\ opLog[i - 1].path = opLog[i].path
         /\ opLog[i - 1].method = opLog[i].method
         /\ opLog[i - 1].result = "void"
  /\ \A i \in 1..Len(opLog) :
       IsInvocation(opLog[i]) =>
         opLog[i].kind = The(OperationVisitorsOf(config))[opLog[i].visitor]
  /\ \A i \in 1..Len(opLog) : \A j \in 1..Len(propLog) : opLog[i].tick < propLog[j].tick
  /\ \A j \in 1..Len(propLog) : <<propLog[j].schema, propLog[j].prop>> \in PropertyNodes
  /\ (Done /\ ~EmptyOrOmitted(PropertyVisitorsOf(config))) =>
       \A sn \in PropertyNodes :
         LET v == VisitsOf(sn[1], sn[2])
             registered == The(PropertyVisitorsOf(config))
         IN /\ Len(v) = Len(registered)
            /\ \A k \in 1..Len(v) : v[k].visitor = k /\ v[k].kind = registered[k]

\* two operation visitors and two property visitors have run in one call that
\* also deleted a path
C9_Witness ==
  /\ Done
  /\ \E i \in 1..Len(opLog) : opLog[i].visitor = 2
  /\ \E i \in 1..Len(opLog) : opLog[i].result = "deletePath"
  /\ \E j \in 1..Len(propLog) : propLog[j].visitor = 2

====
